---- MODULE Spec2Model ----
(***************************************************************************)
(* A model of the ICD-11 Foundation crawler (analysis/crawl.py) and of the *)
(* root-path counter (analysis/analyze.py).                                *)
(*                                                                         *)
(*   Spec       the batch-BFS crawl: crawl() and its fetch_entity tasks    *)
(*   FairSpec   the crawl under the event loop's fairness                  *)
(*   PathSpec   load_graph, main's root lookup and count_paths_to_root     *)
(*   StatsSpec  compute_descendant_stats, the save, and analyze.py on the  *)
(*              saved file                                                 *)
(*   MainSpec   crawl.py's main: the crawl, then the metrics on the graph  *)
(*              it returned, then the save                                 *)
(*   DeepSpec   the call stack of get_height on chain-shaped graphs        *)
(***************************************************************************)
EXTENDS Integers, Sequences, FiniteSets, TLC

VARIABLES
    \* ---- the upstream API, revealed one answer at a time ----
    upstream,      \* id -> the response the API gives for that id
    \* ---- crawl(): locals of the coordinator ----
    concurrency,   \* the argument of crawl()
    permits,       \* semaphore._value
    graph,         \* graph: dict id -> {title, parents, children}
    queue,         \* queue: asyncio.Queue, as a sequence
    seen,          \* seen: set of ids
    fetched,       \* fetched: the progress counter
    batch,         \* batch: list of ids
    tasks,         \* the fetch_entity task of each batch entry
    results,       \* what each task returned (None until it has)
    idx,           \* position of the for loop over zip(batch, results)
    pc,            \* where the coordinator is
    \* ---- history of the crawl (not program state) ----
    calls,         \* id -> number of fetch_entity calls made for it
    writes,        \* id -> number of assignments graph[id] = ...
    enqs,          \* id -> number of queue.put_nowait(id)
    batches,       \* the batches drained so far, root's first
    \* ---- analyze.py ----
    data,          \* the adjacency-list JSON: id -> {title, parents, children}
    ids,           \* ids = list(data.keys())
    edges,         \* the edge list handed to g.add_edges
    root_idx,      \* id_to_idx.get("root")
    path_counts,   \* what count_paths_to_root returned
    depths,        \* what analyze_depths returned
    stderr,        \* the diagnostics written to sys.stderr
    apc,           \* where analyze.py's main is
    \* ---- crawl.py: main and compute_descendant_stats(graph) ----
    spc,           \* where main / compute_descendant_stats is
    stats_err,     \* what crawl.py's main and its callees print to sys.stderr
    \* ---- history of the metrics runs (not program state) ----
    depth_sets,    \* id -> number of assignments to its depth by the BFS
    first,         \* the graph as the first metrics run left it
    desc_sets,     \* desc_cache as the first loop of the run left it
    relaxed,       \* the max-depth pass: queue pops and edges relaxed, in order
    \* ---- the interpreter's call stack under get_height ----
    deep           \* a chain-shaped graph and the outcome of the run on it

crawlVars == <<upstream, concurrency, permits, graph, queue, seen, fetched,
               batch, tasks, results, idx, pc, calls, writes, enqs,
               batches>>
pathVars == <<data, ids, edges, root_idx, path_counts, depths, stderr, apc>>
statsVars == <<spc, stats_err, depth_sets, first, desc_sets, relaxed, deep>>
vars == <<crawlVars, pathVars, statsVars>>

----------------------------------------------------------------------------
(* Bounds of the model *)

\* most child references the upstream hierarchy holds, over all its entities
MaxEdges == 4
\* most child references of an entity that a failed request hides
MaxLost == 2
\* largest --concurrency tried
MaxConcurrency == 2

\* most parent references a graph handed to analyze.py holds, over all nodes
MaxParentRefs == 4

\* the ids of the upstream id space other than the reserved "root"
NonRoot == {"a", "b", "c"}
Ids == {"root"} \cup NonRoot

----------------------------------------------------------------------------
(* Small helpers *)

EmptyMap == [x \in {} |-> x]

\* dict assignment d[k] = v
Put(d, k, v) == (k :> v) @@ d

\* dict.get(k, default)
Get(d, k, default) == IF k \in DOMAIN d THEN d[k] ELSE default

\* Python's None and a non-None value
None == <<>>
Some(x) == <<x>>

SeqsUpTo(S, n) == UNION {[1..k -> S] : k \in 0..n}

Range(s) == {s[i] : i \in DOMAIN s}

----------------------------------------------------------------------------
(* URIs.  A Foundation URI is URI_PREFIX followed by "/"-separated        *)
(* segments; it is modelled as the sequence of those segments, so          *)
(* URI_PREFIX itself is <<>>, URI_PREFIX + "/" is <<"">> and              *)
(* URI_PREFIX + "/a" is <<"a">>.                                          *)

RootUri == <<>>
RootUriSlash == <<"">>
EntityUri(id) == <<id>>

\* uri.rstrip("/") == URI_PREFIX : only empty segments follow the prefix
IsPrefixUri(uri) == \A i \in DOMAIN uri : uri[i] = ""

\* extract_id(uri)
extract_id(uri) == IF IsPrefixUri(uri) THEN "root" ELSE uri[Len(uri)]

\* [extract_id(u) for u in uris]
extract_ids(uris) == [i \in DOMAIN uris |-> extract_id(uris[i])]

----------------------------------------------------------------------------
(* The upstream API: what GET /icd/entity/<id> may answer *)

ChildUris == {EntityUri(x) : x \in NonRoot}

NonEmptySeqsUpTo(S, n) == UNION {[1..k -> S] : k \in 1..n}

\* a full entity with the child list c
Entity(c) ==
    [title |-> ("@value" :> "T"), parent |-> <<RootUriSlash>>, child |-> c]

\* a leaf: the API leaves "child" out; this one has a title without "@value"
Leaf == [title |-> EmptyMap, parent |-> <<EntityUri("a"), EntityUri("b")>>]

\* an entity without "title" and "parent", whose only child is the root
Bare == [child |-> <<RootUriSlash>>]

\* JSON bodies with at most n child references
Payloads(n) ==
    {Entity(c) : c \in NonEmptySeqsUpTo(ChildUris, n)}
    \cup {Leaf}
    \cup {p \in {Bare} : n >= 1}

\* An answer is a 200 with a JSON body, another status, or no answer at all
\* (transport error, timeout), in which case the entity the upstream holds
\* is lost to the crawler.
Responses(n) ==
    {[status |-> 200, json |-> p] : p \in Payloads(n)}
    \cup {[status |-> 404]}
    \cup {[raises |-> TRUE, lost |-> p] :
            p \in Payloads(IF n < MaxLost THEN n ELSE MaxLost)}

IsOk(resp) == "status" \in DOMAIN resp /\ resp.status = 200

\* the entity the upstream holds for an answer (none behind a 404)
EntityOf(resp) ==
    IF IsOk(resp) THEN Some(resp.json)
    ELSE IF "lost" \in DOMAIN resp THEN Some(resp.lost)
    ELSE None

\* the child URIs of that entity
ChildUrisOf(resp) ==
    IF EntityOf(resp) = None THEN <<>> ELSE Get(EntityOf(resp)[1], "child", <<>>)

\* the number of child references of the answers in `up`
RECURSIVE EdgeCount(_)
EdgeCount(up) ==
    IF DOMAIN up = {} THEN 0
    ELSE LET id == CHOOSE x \in DOMAIN up : TRUE
         IN  Len(ChildUrisOf(up[id]))
             + EdgeCount([y \in DOMAIN up \ {id} |-> up[y]])

----------------------------------------------------------------------------
(* fetch_entity *)

\* fetch_entity without its try/except: the exception reaches gather
FetchRaisesUncaught(resp) == "raises" \in DOMAIN resp

\* "async with semaphore" that hands back two permits
ReleaseTwice(value) == value + 2

\* a fetch_entity that keeps its permit (no "async with")
ReleaseNothing(value) == value

\* what fetch_entity returns once the request has been answered by resp:
\* None on an exception and on a status other than 200, else resp.json()
FetchReturn(resp) ==
    IF "raises" \in DOMAIN resp THEN None
    ELSE IF resp.status # 200 THEN None
    ELSE Some(resp.json)

\* whether an exception escapes fetch_entity: "except Exception" catches
\* whatever session.get and resp.json raise
FetchRaises(resp) == FALSE

\* semaphore._value after __aexit__ of "async with semaphore"
Release(value) == value + 1

\* "async with semaphore" is entered by the i-th task of the batch.  The
\* tasks start in the order gather was given them and asyncio.Semaphore
\* wakes its waiters first come, first served.
Acquire(i) ==
    /\ pc = "gather"
    /\ i \in DOMAIN tasks
    /\ tasks[i] = "waiting"
    /\ \A j \in 1..(i - 1) : tasks[j] # "waiting"
    /\ permits > 0
    /\ permits' = permits - 1
    /\ tasks' = [tasks EXCEPT ![i] = "inflight"]
    /\ UNCHANGED <<upstream, concurrency, graph, queue, seen, fetched, batch,
                   results, idx, pc, calls, writes, enqs>>
    /\ UNCHANGED <<batches, pathVars, statsVars>>

\* results gathered in the order of completion (asyncio.as_completed in
\* place of asyncio.gather)
ResolveAsCompleted(i) ==
    /\ pc = "gather"
    /\ i \in DOMAIN tasks
    /\ tasks[i] = "inflight"
    /\ \E resp \in IF batch[i] \in DOMAIN upstream
                   THEN {upstream[batch[i]]}
                   ELSE Responses(MaxEdges - EdgeCount(upstream)) :
        /\ upstream' = Put(upstream, batch[i], resp)
        /\ results' = [results EXCEPT
                         ![1 + Cardinality({j \in DOMAIN tasks : tasks[j] = "done"})] =
                             IF "raises" \in DOMAIN resp \/ resp.status # 200
                             THEN None ELSE Some(resp.json)]
        /\ tasks' = [tasks EXCEPT ![i] = "done"]
    /\ permits' = permits + 1
    /\ UNCHANGED <<concurrency, graph, queue, seen, fetched, batch, idx, pc,
                   calls, writes, enqs>>
    /\ UNCHANGED <<batches, pathVars, statsVars>>

\* the request of the i-th task is answered (or fails), fetch_entity returns
\* and leaves "async with semaphore".  The upstream is deterministic: an id
\* asked before gets the answer it got then.
Resolve(i) ==
    /\ pc = "gather"
    /\ i \in DOMAIN tasks
    /\ tasks[i] = "inflight"
    /\ \E resp \in IF batch[i] \in DOMAIN upstream
                   THEN {upstream[batch[i]]}
                   ELSE Responses(MaxEdges - EdgeCount(upstream)) :
        /\ upstream' = Put(upstream, batch[i], resp)
        /\ results' = [results EXCEPT ![i] = FetchReturn(resp)]
        /\ tasks' = [tasks EXCEPT ![i] = IF FetchRaises(resp) THEN "raised"
                                         ELSE "done"]
    /\ permits' = Release(permits)
    /\ UNCHANGED <<concurrency, graph, queue, seen, fetched, batch, idx, pc,
                   calls, writes, enqs>>
    /\ UNCHANGED <<batches, pathVars, statsVars>>

----------------------------------------------------------------------------
(* crawl *)

\* the record crawl stores for a fetch that returned None
StubNode == [title |-> "?", parents |-> <<>>, children |-> <<>>]

\* the record crawl stores for entity data `d` (d is None or Some(json))
NodeRecord(d) ==
    IF d = None THEN StubNode
    ELSE [title    |-> Get(Get(d[1], "title", EmptyMap), "@value", "?"),
          parents  |-> extract_ids(Get(d[1], "parent", <<>>)),
          children |-> extract_ids(Get(d[1], "child", <<>>))]

\* a loop that misses the last child (an off-by-one slice)
ChildIdsButLast(d) ==
    IF d = None \/ Get(d[1], "child", <<>>) = <<>> THEN <<>>
    ELSE LET c == extract_ids(d[1].child) IN SubSeq(c, 1, Len(c) - 1)

\* a crawl that follows the parent links as well
ChildAndParentIds(d) ==
    IF d = None THEN <<>>
    ELSE extract_ids(Get(d[1], "child", <<>>)) \o extract_ids(Get(d[1], "parent", <<>>))

\* the child ids the for loop at "Enqueue unseen children" walks over
ChildIdsOf(d) ==
    IF d = None THEN <<>> ELSE extract_ids(Get(d[1], "child", <<>>))

\* the enqueue loop without seen.add(cid)
RECURSIVE EnqueueNoMark(_, _)
EnqueueNoMark(child_ids, st) ==
    IF child_ids = <<>> THEN st
    ELSE LET cid == Head(child_ids)
             nxt == IF cid \notin st.seen
                    THEN [seen  |-> st.seen,
                          queue |-> Append(st.queue, cid),
                          enqs  |-> [st.enqs EXCEPT ![cid] = @ + 1]]
                    ELSE st
         IN  EnqueueNoMark(Tail(child_ids), nxt)

\* the enqueue loop that marks the children seen only after the loop
EnqueueMarkLate(child_ids, st) ==
    [EnqueueNoMark(child_ids, st) EXCEPT !.seen = @ \cup Range(child_ids)]

\* for cid in child_ids: if cid not in seen: seen.add(cid); queue.put_nowait(cid)
\* st is [seen, queue, enqs]
RECURSIVE EnqueueUnseen(_, _)
EnqueueUnseen(child_ids, st) ==
    IF child_ids = <<>> THEN st
    ELSE LET cid == Head(child_ids)
             nxt == IF cid \notin st.seen
                    THEN [seen  |-> st.seen \cup {cid},
                          queue |-> Append(st.queue, cid),
                          enqs  |-> [st.enqs EXCEPT ![cid] = @ + 1]]
                    ELSE st
         IN  EnqueueUnseen(Tail(child_ids), nxt)

\* a crawl without batches: the head of the queue is fetched on its own
\* (a plain FIFO worklist)
DrainOne ==
    /\ pc = "loop"
    /\ queue # <<>>
    /\ batch' = <<Head(queue)>>
    /\ queue' = Tail(queue)
    /\ tasks' = <<"waiting">>
    /\ results' = <<None>>
    /\ calls' = [calls EXCEPT ![Head(queue)] = @ + 1]
    /\ idx' = 1
    /\ batches' = Append(batches, <<Head(queue)>>)
    /\ pc' = "gather"
    /\ UNCHANGED <<upstream, concurrency, permits, graph, seen, fetched,
                   writes, enqs>>
    /\ UNCHANGED <<pathVars, statsVars>>

\* while not queue.empty(): drain the queue into a batch and create one
\* fetch_entity task per id (asyncio.gather)
Drain ==
    /\ pc = "loop"
    /\ queue # <<>>
    /\ batch' = queue
    /\ queue' = <<>>
    /\ tasks' = [i \in DOMAIN queue |-> "waiting"]
    /\ results' = [i \in DOMAIN queue |-> None]
    /\ calls' = [id \in Ids |->
                    calls[id] + Cardinality({i \in DOMAIN queue : queue[i] = id})]
    /\ idx' = 1
    /\ batches' = Append(batches, queue)
    /\ pc' = "gather"
    /\ UNCHANGED <<upstream, concurrency, permits, graph, seen, fetched,
                   writes, enqs>>
    /\ UNCHANGED <<pathVars, statsVars>>

\* a join that returns as soon as one task is done (asyncio.wait with
\* FIRST_COMPLETED in place of asyncio.gather)
JoinEarly ==
    /\ pc = "gather"
    /\ \E i \in DOMAIN tasks : tasks[i] = "done"
    /\ pc' = "process"
    /\ UNCHANGED <<upstream, concurrency, permits, graph, queue, seen, fetched,
                   batch, tasks, results, idx, calls, writes, enqs>>
    /\ UNCHANGED <<batches, pathVars, statsVars>>

\* await asyncio.gather(*tasks) returns once every task of the batch is
\* done, or raises what a task raised
Join ==
    /\ pc = "gather"
    /\ \/ \A i \in DOMAIN tasks : tasks[i] = "done"
       \/ \E i \in DOMAIN tasks : tasks[i] = "raised"
    /\ pc' = IF \E i \in DOMAIN tasks : tasks[i] = "raised" THEN "raised"
             ELSE "process"
    /\ UNCHANGED <<upstream, concurrency, permits, graph, queue, seen, fetched,
                   batch, tasks, results, idx, calls, writes, enqs>>
    /\ UNCHANGED <<batches, pathVars, statsVars>>

\* one iteration of "for entity_id, data in zip(batch, results)"
ProcessResult ==
    /\ pc = "process"
    /\ idx <= Len(batch)
    /\ LET entity_id == batch[idx]
           d == results[idx]
           st == EnqueueUnseen(ChildIdsOf(d),
                               [seen |-> seen, queue |-> queue, enqs |-> enqs])
       IN  /\ fetched' = fetched + 1
           /\ graph' = Put(graph, entity_id, NodeRecord(d))
           /\ writes' = [writes EXCEPT ![entity_id] = @ + 1]
           /\ seen' = st.seen
           /\ queue' = st.queue
           /\ enqs' = st.enqs
    /\ idx' = idx + 1
    /\ pc' = IF idx = Len(batch) THEN "loop" ELSE "process"
    /\ UNCHANGED <<upstream, concurrency, permits, batch, tasks, results, calls>>
    /\ UNCHANGED <<batches, pathVars, statsVars>>

\* the queue is empty: leave the loop and return graph
Return ==
    /\ pc = "loop"
    /\ queue = <<>>
    /\ pc' = "done"
    /\ UNCHANGED <<upstream, concurrency, permits, graph, queue, seen, fetched,
                   batch, tasks, results, idx, calls, writes, enqs>>
    /\ UNCHANGED <<batches, pathVars, statsVars>>

\* the max-depth pass has popped nothing and relaxed no edge
NoRelaxation == [pops |-> 0, log |-> <<>>]

\* compute_descendant_stats has not been called; no chain graph is tried
NoChain == [n |-> 0, cyclic |-> FALSE, frames |-> 0, outcome |-> "idle"]
StatsIdle ==
    /\ spc = "idle"
    /\ stats_err = <<>>
    /\ depth_sets = [id \in Ids |-> 0]
    /\ first = None
    /\ desc_sets = EmptyMap
    /\ relaxed = NoRelaxation
    /\ deep = NoChain

PathIdle ==
    /\ data = EmptyMap
    /\ ids = <<>>
    /\ edges = <<>>
    /\ root_idx = None
    /\ path_counts = None
    /\ depths = None
    /\ stderr = <<>>
    /\ apc = "idle"

\* crawl(concurrency) up to the first test of the while loop
Init ==
    /\ upstream = EmptyMap
    /\ concurrency \in 1..MaxConcurrency
    /\ permits = concurrency
    /\ graph = EmptyMap
    /\ queue = <<"root">>
    /\ seen = {"root"}
    /\ fetched = 0
    /\ batch = <<>>
    /\ tasks = <<>>
    /\ results = <<>>
    /\ idx = 1
    /\ pc = "loop"
    /\ calls = [id \in Ids |-> 0]
    /\ writes = [id \in Ids |-> 0]
    /\ enqs = [id \in Ids |-> IF id = "root" THEN 1 ELSE 0]
    /\ batches = <<>>
    /\ PathIdle
    /\ StatsIdle

Next ==
    \/ Drain
    \/ \E i \in 1..Cardinality(Ids) : Acquire(i)
    \/ \E i \in 1..Cardinality(Ids) : Resolve(i)
    \/ Join
    \/ ProcessResult
    \/ Return

Spec == Init /\ [][Next]_vars

\* The event loop runs every task that can run, and every request issued is
\* eventually answered.
FairSpec == Spec /\ WF_vars(Next)

----------------------------------------------------------------------------
(* analyze.py.  Vertex indices are 1-based here: index i stands for the     *)
(* Python index i - 1.                                                      *)

\* the graphs analyze.py is run on: some ids of Ids, each with a parents
\* list over Ids (so a list may name an id the graph lacks, itself, or the
\* same id twice), MaxParentRefs references at most in all

\* the parents lists an id may have when n references are left: none for an
\* id the graph lacks
ParentLists(P, id, n) == IF id \in P THEN SeqsUpTo(Ids, n) ELSE {<<>>}

PresentSets == {Ids, Ids \ {"c"}, Ids \ {"root"}}

\* the adjacency-list JSON of the ids P with the parents lists m
InputGraph(P, m) ==
    [id \in P |-> [title |-> "T", parents |-> m[id], children |-> <<>>]]

\* the orders in which the JSON object may list its keys
KeyOrder == <<"root", "a", "b", "c">>
Reverse(s) == [i \in DOMAIN s |-> s[Len(s) + 1 - i]]
Filter(s, P) == SelectSeq(s, LAMBDA x : x \in P)
KeyOrders(P) == {Filter(KeyOrder, P), Reverse(Filter(KeyOrder, P))}

\* id_to_idx[eid]
id_to_idx(idl, eid) == CHOOSE i \in DOMAIN idl : idl[i] = eid

\* for pid in info["parents"]: if pid in id_to_idx: edges.append(...)
RECURSIVE EdgesOfNode(_, _, _)
EdgesOfNode(idl, child_idx, parents) ==
    IF parents = <<>> THEN <<>>
    ELSE LET pid == Head(parents)
             rest == EdgesOfNode(idl, child_idx, Tail(parents))
         IN  IF pid \in Range(idl)
             THEN <<<<id_to_idx(idl, pid), child_idx>>>> \o rest
             ELSE rest

\* for eid, info in data.items(): the edge list, parent -> child
RECURSIVE BuildEdges(_, _, _)
BuildEdges(d, idl, k) ==
    IF k > Len(idl) THEN <<>>
    ELSE EdgesOfNode(idl, k, d[idl[k]].parents) \o BuildEdges(d, idl, k + 1)

\* g.successors(v): one entry per edge out of v
RECURSIVE Successors(_, _)
Successors(E, v) ==
    IF E = <<>> THEN <<>>
    ELSE IF Head(E)[1] = v THEN <<Head(E)[2]>> \o Successors(Tail(E), v)
    ELSE Successors(Tail(E), v)

InDegree(E, v) == Cardinality({k \in DOMAIN E : E[k][2] = v})

\* igraph's topological sorting, mode "out": vertices of in-degree 0 are
\* queued in index order; a vertex taken from the queue lowers the in-degree
\* of each successor, which is queued when it reaches 0
RECURSIVE Lower(_, _)
Lower(succ, st) ==
    IF succ = <<>> THEN st
    ELSE LET w == Head(succ)
             deg == [st.deg EXCEPT ![w] = @ - 1]
         IN  Lower(Tail(succ),
                   [deg |-> deg,
                    q   |-> IF deg[w] = 0 THEN Append(st.q, w) ELSE st.q])

RECURSIVE Kahn(_, _, _)
Kahn(E, st, out) ==
    IF st.q = <<>> THEN out
    ELSE LET v == Head(st.q)
         IN  Kahn(E, Lower(Successors(E, v), [deg |-> st.deg, q |-> Tail(st.q)]),
                  Append(out, v))

\* g.topological_sorting(mode="out"): the order, or None when igraph raises
\* InternalError because the graph has a cycle
TopologicalSorting(n, E) ==
    LET deg == [v \in 1..n |-> InDegree(E, v)]
        q0 == SelectSeq([v \in 1..n |-> v], LAMBDA v : deg[v] = 0)
        out == Kahn(E, [deg |-> deg, q |-> q0], <<>>)
    IN  IF Len(out) < n THEN None ELSE Some(out)

\* the propagation with "=" in place of "+="
RECURSIVE AssignToChildren(_, _, _)
AssignToChildren(succ, v, counts) ==
    IF succ = <<>> THEN counts
    ELSE AssignToChildren(Tail(succ), v,
                          [counts EXCEPT ![Head(succ)] = counts[v]])

\* for child in g.successors(v): path_counts[child] += path_counts[v]
RECURSIVE AddToChildren(_, _, _)
AddToChildren(succ, v, counts) ==
    IF succ = <<>> THEN counts
    ELSE AddToChildren(Tail(succ), v,
                       [counts EXCEPT ![Head(succ)] = @ + counts[v]])

\* for v in topo: if path_counts[v] == 0: continue; propagate to children
RECURSIVE Propagate(_, _, _)
Propagate(E, topo, counts) ==
    IF topo = <<>> THEN counts
    ELSE LET v == Head(topo)
         IN  IF counts[v] = 0 THEN Propagate(E, Tail(topo), counts)
             ELSE Propagate(E, Tail(topo),
                            AddToChildren(Successors(E, v), v, counts))

\* a counter that forgets path_counts[root_idx] = 1
InitialCountsZero(n, root) == [v \in 1..n |-> 0]

\* path_counts = [0] * n; path_counts[root_idx] = 1
InitialCounts(n, root) == [[v \in 1..n |-> 0] EXCEPT ![root] = 1]

\* count_paths_to_root(g, root_idx): the list returned and what is printed
count_paths_to_root(n, E, root) ==
    LET topo == TopologicalSorting(n, E)
    IN  IF topo = None
        THEN [ret |-> [v \in 1..n |-> 1],
              err |-> <<"WARNING: Graph has cycles! Falling back to BFS.">>]
        ELSE [ret |-> Propagate(E, topo[1], InitialCounts(n, root)),
              err |-> <<>>]

\* a child level that repeats the depth of its parent
SameDepth(dl, v) == dl[v]

\* depths[v] + 1
NextDepth(dl, v) == dl[v] + 1

\* for child in g.successors(v): if depths[child] == -1: set it and append
\* the child to next_queue; st = [depths, next_queue]
RECURSIVE VisitSuccessors(_, _, _)
VisitSuccessors(succ, v, st) ==
    IF succ = <<>> THEN st
    ELSE LET child == Head(succ)
         IN  IF st.depths[child] = -1
             THEN VisitSuccessors(
                      Tail(succ), v,
                      [depths     |-> [st.depths EXCEPT
                                         ![child] = NextDepth(st.depths, v)],
                       next_queue |-> Append(st.next_queue, child)])
             ELSE VisitSuccessors(Tail(succ), v, st)

\* for v in queue: ...
RECURSIVE VisitLevel(_, _, _)
VisitLevel(E, q, st) ==
    IF q = <<>> THEN st
    ELSE VisitLevel(E, Tail(q), VisitSuccessors(Successors(E, Head(q)), Head(q), st))

\* while queue: next_queue = []; ...; queue = next_queue
RECURSIVE LevelLoop(_, _, _)
LevelLoop(E, q, dl) ==
    IF q = <<>> THEN dl
    ELSE LET st == VisitLevel(E, q, [depths |-> dl, next_queue |-> <<>>])
         IN  LevelLoop(E, st.next_queue, st.depths)

\* analyze_depths(g, root_idx): the list of depths, -1 where root does not
\* reach
analyze_depths(n, E, root) ==
    LevelLoop(E, <<root>>, [v \in 1..n |-> IF v = root THEN 0 ELSE -1])

CrawlIdle ==
    /\ upstream = EmptyMap
    /\ concurrency = 1
    /\ permits = 1
    /\ graph = EmptyMap
    /\ queue = <<>>
    /\ seen = {}
    /\ fetched = 0
    /\ batch = <<>>
    /\ tasks = <<>>
    /\ results = <<>>
    /\ idx = 1
    /\ pc = "idle"
    /\ calls = [id \in Ids |-> 0]
    /\ writes = [id \in Ids |-> 0]
    /\ enqs = [id \in Ids |-> 0]
    /\ batches = <<>>

\* load_graph(path): the vertex list and the edge list
LoadGraph ==
    /\ apc = "start"
    /\ \E idl \in KeyOrders(DOMAIN data) :
        /\ ids' = idl
        /\ edges' = BuildEdges(data, idl, 1)
    /\ apc' = "loaded"
    /\ UNCHANGED <<data, root_idx, path_counts, depths, stderr>>
    /\ UNCHANGED <<crawlVars, statsVars>>

\* main: root_idx = id_to_idx.get("root"); exit when it is None
RootLookup ==
    /\ apc = "loaded"
    /\ IF "root" \in Range(ids)
       THEN /\ root_idx' = Some(id_to_idx(ids, "root"))
            /\ stderr' = stderr
            /\ apc' = "ready"
       ELSE /\ root_idx' = None
            /\ stderr' = Append(stderr, "ERROR: 'root' not found in graph")
            /\ apc' = "exit"
    /\ UNCHANGED <<data, ids, edges, path_counts, depths>>
    /\ UNCHANGED <<crawlVars, statsVars>>

\* main: depths = analyze_depths(g, root_idx)
AnalyzeDepths ==
    /\ apc = "ready"
    /\ depths' = Some(analyze_depths(Len(ids), edges, root_idx[1]))
    /\ apc' = "depths"
    /\ UNCHANGED <<data, ids, edges, root_idx, path_counts, stderr>>
    /\ UNCHANGED <<crawlVars, statsVars>>

\* main: path_counts = count_paths_to_root(g, root_idx)
CountPaths ==
    /\ apc = "depths"
    /\ LET r == count_paths_to_root(Len(ids), edges, root_idx[1])
       IN  /\ path_counts' = Some(r.ret)
           /\ stderr' = stderr \o r.err
    /\ apc' = "counted"
    /\ UNCHANGED <<data, ids, edges, root_idx, depths>>
    /\ UNCHANGED <<crawlVars, statsVars>>

PathInit ==
    /\ \E P \in PresentSets :
        \E pr \in ParentLists(P, "root", MaxParentRefs) :
        \E pa \in ParentLists(P, "a", MaxParentRefs - Len(pr)) :
        \E pb \in ParentLists(P, "b", MaxParentRefs - Len(pr) - Len(pa)) :
        \E pcs \in ParentLists(P, "c", MaxParentRefs - Len(pr) - Len(pa) - Len(pb)) :
            data = InputGraph(P, [root |-> pr, a |-> pa, b |-> pb, c |-> pcs])
    /\ ids = <<>>
    /\ edges = <<>>
    /\ root_idx = None
    /\ path_counts = None
    /\ depths = None
    /\ stderr = <<>>
    /\ apc = "start"
    /\ CrawlIdle
    /\ StatsIdle

PathNext == LoadGraph \/ RootLookup \/ AnalyzeDepths \/ CountPaths

PathSpec == PathInit /\ [][PathNext]_vars

----------------------------------------------------------------------------
(* crawl.py: compute_descendant_stats(graph) and main around it.  The graph *)
(* is the crawl's result or, with --stats-only, the JSON file loaded.       *)

\* most child references a graph handed to compute_descendant_stats holds
MaxChildRefs == 4

\* the children lists an id may have when n references are left
ChildLists(n) == SeqsUpTo(Ids, n)

\* the parents list of id in a hierarchy with the children lists U: every id
\* that lists it as a child, once
ParentsIn(U, id) == SelectSeq(KeyOrder, LAMBDA p : id \in Range(U[p]))

\* the graph of the ids P cut out of the hierarchy U: a present node may name
\* a child or a parent that the graph lacks
StatsGraph(P, U) ==
    [id \in P |-> [title |-> "T", parents |-> ParentsIn(U, id),
                   children |-> U[id]]]

\* for node_id in graph: the keys in insertion order
KeysOf(g) == Filter(KeyOrder, DOMAIN g)

\* a traversal that follows the parents list as well
ChildrenAndParentsOf(g, node_id) ==
    IF node_id \in DOMAIN g
    THEN Get(g[node_id], "children", <<>>) \o Get(g[node_id], "parents", <<>>)
    ELSE <<>>

\* graph.get(node_id, {}).get("children", [])
ChildrenOf(g, node_id) ==
    IF node_id \in DOMAIN g THEN Get(g[node_id], "children", <<>>) ELSE <<>>

\* dict.pop(k, None)
Remove(d, k) == [x \in DOMAIN d \ {k} |-> d[x]]

Max(S) == CHOOSE x \in S : \A y \in S : y <= x

\* the descendant step that leaves out what the child itself reaches
AddChildOnly(result, child_id, sub) == result \cup {child_id}

\* result.add(child_id); result |= get_descendants(child_id)
AddDescendants(result, child_id, sub) == result \cup {child_id} \cup sub

\* the skip that counts the child although the graph lacks it
CountedAnyway(result, child_id) == result \cup {child_id}

\* a child_id that is not in graph adds nothing
SkipChild(result, child_id) == result

RECURSIVE get_descendants(_, _, _)
RECURSIVE DescendantsOfChildren(_, _, _, _)

\* for child_id in children: ...   (desc_cache is threaded through)
DescendantsOfChildren(g, children, result, desc_cache) ==
    IF children = <<>> THEN [ret |-> result, cache |-> desc_cache]
    ELSE LET child_id == Head(children)
         IN  IF child_id \in DOMAIN g
             THEN LET r == get_descendants(g, child_id, desc_cache)
                  IN  DescendantsOfChildren(g, Tail(children),
                          AddDescendants(result, child_id, r.ret), r.cache)
             ELSE DescendantsOfChildren(g, Tail(children),
                          SkipChild(result, child_id), desc_cache)

\* get_descendants(node_id): the set returned and desc_cache afterwards
get_descendants(g, node_id, desc_cache) ==
    IF node_id \in DOMAIN desc_cache
    THEN [ret |-> desc_cache[node_id], cache |-> desc_cache]
    ELSE LET r == DescendantsOfChildren(g, ChildrenOf(g, node_id), {},
                                        Put(desc_cache, node_id, {}))
         IN  [ret |-> r.ret, cache |-> Put(r.cache, node_id, r.ret)]

\* max(...) with 0 for "no child in graph"
MaxChildDefaultZero(hs) == IF hs = {} THEN 0 ELSE Max(hs)

\* max((get_height(c) for c in children if c in graph), default=-1)
MaxChild(hs) == IF hs = {} THEN -1 ELSE Max(hs)

RECURSIVE get_height(_, _, _)
RECURSIVE HeightsOfChildren(_, _, _, _)

\* the generator (get_height(c) for c in children if c in graph), consumed
\* in order; hs is the set of heights it has yielded
HeightsOfChildren(g, children, hs, height_cache) ==
    IF children = <<>> THEN [ret |-> hs, cache |-> height_cache]
    ELSE LET c == Head(children)
         IN  IF c \in DOMAIN g
             THEN LET r == get_height(g, c, height_cache)
                  IN  HeightsOfChildren(g, Tail(children),
                                        hs \cup {r.ret}, r.cache)
             ELSE HeightsOfChildren(g, Tail(children), hs, height_cache)

\* get_height(node_id): the height returned and height_cache afterwards
get_height(g, node_id, height_cache) ==
    IF node_id \in DOMAIN height_cache
    THEN [ret |-> height_cache[node_id], cache |-> height_cache]
    ELSE LET guarded == Put(height_cache, node_id, 0)
             children == ChildrenOf(g, node_id)
         IN  IF children = <<>> THEN [ret |-> 0, cache |-> guarded]
             ELSE LET r == HeightsOfChildren(g, children, {}, guarded)
                      h == MaxChild(r.ret) + 1
                  IN  [ret |-> h, cache |-> Put(r.cache, node_id, h)]

\* the annotation that adds to a count already there
AnnotateAccumulating(rec, dc, h) ==
    Remove(Put(Put(rec, "descendantCount", Get(rec, "descendantCount", 0) + dc),
               "height", h), "maxDepth")

\* the annotation that pops "children" in place of "maxDepth"
AnnotatePoppingChildren(rec, dc, h) ==
    Remove(Put(Put(rec, "descendantCount", dc), "height", h), "children")

\* graph[node_id]["descendantCount"] = ...; ["height"] = ...; pop("maxDepth")
Annotate(rec, dc, h) ==
    Remove(Put(Put(rec, "descendantCount", dc), "height", h), "maxDepth")

\* for node_id in graph: the first loop of compute_descendant_stats
RECURSIVE AnnotateAll(_, _, _, _)
AnnotateAll(g, keys, desc_cache, height_cache) ==
    IF keys = <<>> THEN [g |-> g, desc_cache |-> desc_cache]
    ELSE LET node_id == Head(keys)
             d == get_descendants(g, node_id, desc_cache)
             h == get_height(g, node_id, height_cache)
         IN  AnnotateAll(Put(g, node_id,
                             Annotate(g[node_id], Cardinality(d.ret), h.ret)),
                         Tail(keys), d.cache, h.cache)

\* the reset that starts every node at depth 0
ResetDepthsToZero(g) ==
    [node_id \in DOMAIN g |-> Put(Put(g[node_id], "depth", 0), "maxDepth", 0)]

\* for node_id in graph: depth = -1, maxDepth = -1
ResetDepths(g) ==
    [node_id \in DOMAIN g |-> Put(Put(g[node_id], "depth", -1), "maxDepth", -1)]

\* the first-visit test with the sentinel off by one
DepthBelowOne(g, child_id) == g[child_id].depth < 1

\* graph[child_id]["depth"] == -1
DepthUnset(g, child_id) == g[child_id].depth = -1

\* for child_id in graph[nid].get("children", []): the inner loop of the
\* depth BFS; st = [g, q, sets]
RECURSIVE DepthChildren(_, _, _)
DepthChildren(st, d, children) ==
    IF children = <<>> THEN st
    ELSE LET child_id == Head(children)
         IN  IF child_id \in DOMAIN st.g /\ DepthUnset(st.g, child_id)
             THEN DepthChildren(
                      [g    |-> Put(st.g, child_id,
                                    Put(st.g[child_id], "depth", d + 1)),
                       q    |-> Append(st.q, child_id),
                       sets |-> [st.sets EXCEPT ![child_id] = @ + 1]],
                      d, Tail(children))
             ELSE DepthChildren(st, d, Tail(children))

\* while queue: nid = queue.popleft(); d = graph[nid]["depth"]; ...
RECURSIVE DepthLoop(_)
DepthLoop(st) ==
    IF st.q = <<>> THEN st
    ELSE LET nid == Head(st.q)
         IN  DepthLoop(DepthChildren([st EXCEPT !.q = Tail(@)],
                                     st.g[nid].depth,
                                     Get(st.g[nid], "children", <<>>)))

\* the BFS for min depth: the graph afterwards and, per id, how many times
\* its depth was assigned
DepthBFS(g) ==
    IF "root" \in DOMAIN g
    THEN DepthLoop([g    |-> Put(g, "root", Put(g["root"], "depth", 0)),
                    q    |-> <<"root">>,
                    sets |-> [id \in Ids |-> IF id = "root" THEN 1 ELSE 0]])
    ELSE [g |-> g, q |-> <<>>, sets |-> [id \in Ids |-> 0]]

\* the test made against the visited set as it was when nid was popped
\* (the unvisited children picked before the loop over them)
EdgeVisitedAtPop(st, e) == e \in st.at_pop

\* (nid, child_id) in visited
EdgeVisited(st, e) == e \in st.visited

\* the comparison made against the child's depth field
DeeperThanDepth(g, child_id, d) == d + 1 > g[child_id].depth

\* d + 1 > graph[child_id]["maxDepth"]
Deeper(g, child_id, d) == d + 1 > g[child_id].maxDepth

\* the inner loop of the max-depth BFS; st = [g, q, visited, at_pop, pops,
\* log], where at_pop is visited as it was when nid was popped, pops counts
\* the popleft calls and log lists the edges that passed the visited test
RECURSIVE MaxDepthChildren(_, _, _, _)
MaxDepthChildren(st, nid, d, children) ==
    IF children = <<>> THEN st
    ELSE LET child_id == Head(children)
         IN  IF child_id \in DOMAIN st.g /\ ~EdgeVisited(st, <<nid, child_id>>)
             THEN LET marked == [st EXCEPT
                                   !.visited = @ \cup {<<nid, child_id>>},
                                   !.log = Append(@, <<nid, child_id>>)]
                  IN  IF Deeper(st.g, child_id, d)
                      THEN MaxDepthChildren(
                               [marked EXCEPT
                                   !.g = Put(st.g, child_id,
                                             Put(st.g[child_id], "maxDepth", d + 1)),
                                   !.q = Append(st.q, child_id)],
                               nid, d, Tail(children))
                      ELSE MaxDepthChildren(marked, nid, d, Tail(children))
             ELSE MaxDepthChildren(st, nid, d, Tail(children))

RECURSIVE MaxDepthLoop(_)
MaxDepthLoop(st) ==
    IF st.q = <<>> THEN st
    ELSE LET nid == Head(st.q)
         IN  MaxDepthLoop(MaxDepthChildren([st EXCEPT !.q = Tail(@),
                                                      !.at_pop = st.visited,
                                                      !.pops = @ + 1],
                                           nid, st.g[nid].maxDepth,
                                           Get(st.g[nid], "children", <<>>)))

\* the BFS for max depth, edges tracked in visited
MaxDepthBFS(g) ==
    IF "root" \in DOMAIN g
    THEN MaxDepthLoop([g |-> Put(g, "root", Put(g["root"], "maxDepth", 0)),
                       q |-> <<"root">>,
                       visited |-> {}, at_pop |-> {},
                       pops |-> 0, log |-> <<>>])
    ELSE [g |-> g, q |-> <<>>, visited |-> {}, at_pop |-> {},
          pops |-> 0, log |-> <<>>]

\* compute_descendant_stats(graph) as a whole: the graph it leaves
compute_descendant_stats(g) ==
    MaxDepthBFS(DepthBFS(ResetDepths(
        AnnotateAll(g, KeysOf(g), EmptyMap, EmptyMap).g)).g).g

\* lines 150-160: descendantCount and height of every node
StatsAnnotate ==
    /\ spc = "start"
    /\ LET r == AnnotateAll(graph, KeysOf(graph), EmptyMap, EmptyMap)
       IN  /\ graph' = r.g
           /\ desc_sets' = r.desc_cache
    /\ spc' = "annotated"
    /\ UNCHANGED <<upstream, concurrency, permits, queue, seen, fetched, batch,
                   tasks, results, idx, pc, calls, writes, enqs, batches>>
    /\ UNCHANGED <<stats_err, depth_sets, first, relaxed, deep>>
    /\ UNCHANGED pathVars

\* lines 165-167
StatsReset ==
    /\ spc = "annotated"
    /\ graph' = ResetDepths(graph)
    /\ spc' = "reset"
    /\ UNCHANGED <<upstream, concurrency, permits, queue, seen, fetched, batch,
                   tasks, results, idx, pc, calls, writes, enqs, batches>>
    /\ UNCHANGED <<stats_err, depth_sets, first, desc_sets, relaxed, deep>>
    /\ UNCHANGED pathVars

\* lines 169-179
StatsDepth ==
    /\ spc = "reset"
    /\ LET r == DepthBFS(graph)
       IN  /\ graph' = r.g
           /\ depth_sets' = r.sets
    /\ spc' = "depth"
    /\ UNCHANGED <<upstream, concurrency, permits, queue, seen, fetched, batch,
                   tasks, results, idx, pc, calls, writes, enqs, batches>>
    /\ UNCHANGED <<stats_err, first, desc_sets, relaxed, deep>>
    /\ UNCHANGED pathVars

\* lines 181-195
StatsMaxDepth ==
    /\ spc = "depth"
    /\ LET r == MaxDepthBFS(graph)
       IN  /\ graph' = r.g
           /\ relaxed' = [pops |-> r.pops, log |-> r.log]
    /\ stats_err' = Append(stats_err, "Computed descendant stats")
    /\ spc' = "done"
    /\ UNCHANGED <<upstream, concurrency, permits, queue, seen, fetched, batch,
                   tasks, results, idx, pc, calls, writes, enqs, batches>>
    /\ UNCHANGED <<depth_sets, first, desc_sets, deep>>
    /\ UNCHANGED pathVars

\* main run again with --stats-only on the file it saved: the same graph,
\* annotated, goes through compute_descendant_stats a second time
StatsRerun ==
    /\ spc = "done"
    /\ first = None
    /\ apc = "idle"
    /\ first' = Some(graph)
    /\ depth_sets' = [id \in Ids |-> 0]
    /\ desc_sets' = EmptyMap
    /\ relaxed' = NoRelaxation
    /\ spc' = "start"
    /\ UNCHANGED <<stats_err, deep>>
    /\ UNCHANGED crawlVars
    /\ UNCHANGED pathVars

\* main: json.dump(graph, f); analyze.py reads that file
Save ==
    /\ spc = "done"
    /\ apc = "idle"
    /\ data' = graph
    /\ apc' = "start"
    /\ UNCHANGED <<ids, edges, root_idx, path_counts, depths, stderr>>
    /\ UNCHANGED crawlVars
    /\ UNCHANGED statsVars

StatsInit ==
    /\ \/ \E P \in PresentSets :
            \E cr \in ChildLists(MaxChildRefs) :
            \E ca \in ChildLists(MaxChildRefs - Len(cr)) :
            \E cb \in ChildLists(MaxChildRefs - Len(cr) - Len(ca)) :
            \E cc \in ChildLists(MaxChildRefs - Len(cr) - Len(ca) - Len(cb)) :
                graph = StatsGraph(P, [root |-> cr, a |-> ca, b |-> cb, c |-> cc])
       \* the graph that has root alone
       \/ \E cr \in ChildLists(MaxChildRefs) :
            graph = StatsGraph({"root"},
                               [root |-> cr, a |-> <<>>, b |-> <<>>, c |-> <<>>])
    /\ upstream = EmptyMap
    /\ concurrency = 1
    /\ permits = 1
    /\ queue = <<>>
    /\ seen = {}
    /\ fetched = 0
    /\ batch = <<>>
    /\ tasks = <<>>
    /\ results = <<>>
    /\ idx = 1
    /\ pc = "idle"
    /\ calls = [id \in Ids |-> 0]
    /\ writes = [id \in Ids |-> 0]
    /\ enqs = [id \in Ids |-> 0]
    /\ batches = <<>>
    /\ PathIdle
    /\ spc = "start"
    /\ stats_err = <<>>
    /\ depth_sets = [id \in Ids |-> 0]
    /\ first = None
    /\ desc_sets = EmptyMap
    /\ relaxed = NoRelaxation
    /\ deep = NoChain

StatsNext ==
    \/ StatsAnnotate
    \/ StatsReset
    \/ StatsDepth
    \/ StatsMaxDepth
    \/ StatsRerun
    \/ Save
    \/ LoadGraph
    \/ RootLookup
    \/ AnalyzeDepths
    \/ CountPaths

StatsSpec == StatsInit /\ [][StatsNext]_vars

\* main without --stats-only: graph = asyncio.run(crawl(...)) has returned
\* and compute_descendant_stats(graph) is called on it
CallStats ==
    /\ pc = "done"
    /\ spc = "idle"
    /\ spc' = "start"
    /\ UNCHANGED <<stats_err, depth_sets, first, desc_sets, relaxed, deep>>
    /\ UNCHANGED crawlVars
    /\ UNCHANGED pathVars

\* main: the crawl, then the metrics on its result, then the save
MainNext ==
    \/ Drain
    \/ \E i \in 1..Cardinality(Ids) : Acquire(i)
    \/ \E i \in 1..Cardinality(Ids) : Resolve(i)
    \/ Join
    \/ ProcessResult
    \/ Return
    \/ CallStats
    \/ StatsAnnotate
    \/ StatsReset
    \/ StatsDepth
    \/ StatsMaxDepth
    \/ Save

MainSpec == Init /\ [][MainNext]_vars

----------------------------------------------------------------------------
(* The interpreter's call stack under compute_descendant_stats.  The graph  *)
(* is a chain: root -> n1 -> ... of deep.n nodes in all, whose last node    *)
(* has no children or, when deep.cyclic, names root as its child.           *)

\* longest chain tried, in nodes
MaxChain == 1000

\* sys.getrecursionlimit() of a fresh interpreter
DefaultRecursionLimit == 1000

\* the headroom compute_descendant_stats adds to len(graph)
RecursionSlack == 1000

\* frames on the stack when compute_descendant_stats runs its first loop:
\* the module, main and compute_descendant_stats itself
BaseFrames == 3

\* what one level of get_height costs: its own frame and the frame of the
\* generator expression that makes the recursive call; an interpreter may
\* charge the call of max() as well
FrameCosts == {2, 3}

\* sys.setrecursionlimit(max(old_limit, len(graph) + 1000))
RecursionLimit(old_limit, len_graph) ==
    IF old_limit >= len_graph + RecursionSlack
    THEN old_limit ELSE len_graph + RecursionSlack

\* the nesting of get_descendants / get_height calls that the call for root
\* reaches on the chain: one per node, and one more for the call that meets
\* the in-progress mark when the chain is closed
CallLevels(n, cyclic) == IF cyclic THEN n + 1 ELSE n

\* frames in use at the deepest get_descendants call (one frame a level)
DescendantFrames(n, cyclic) == BaseFrames + CallLevels(n, cyclic)

\* frames in use at the deepest get_height call; the call that meets the
\* in-progress mark returns before it reaches a generator
HeightFrames(n, cyclic, cost) ==
    BaseFrames + cost * n + (IF cyclic THEN cost ELSE 0)

\* compute_descendant_stats on the chain: RecursionError when a call would
\* go past the limit
DeepOutcome(n, cyclic, cost) ==
    LET limit == RecursionLimit(DefaultRecursionLimit, n)
    IN  IF DescendantFrames(n, cyclic) > limit
            \/ HeightFrames(n, cyclic, cost) > limit
        THEN "RecursionError"
        ELSE "done"

DeepRun ==
    /\ deep.outcome = "start"
    /\ deep' = [deep EXCEPT !.outcome = DeepOutcome(deep.n, deep.cyclic,
                                                    deep.frames)]
    /\ UNCHANGED <<spc, stats_err, depth_sets, first, desc_sets, relaxed>>
    /\ UNCHANGED crawlVars
    /\ UNCHANGED pathVars

DeepInit ==
    /\ deep \in [n : 1..MaxChain, cyclic : BOOLEAN, frames : FrameCosts,
                 outcome : {"start"}]
    /\ spc = "idle"
    /\ stats_err = <<>>
    /\ depth_sets = [id \in Ids |-> 0]
    /\ first = None
    /\ desc_sets = EmptyMap
    /\ relaxed = NoRelaxation
    /\ CrawlIdle
    /\ PathIdle

DeepNext == DeepRun

DeepSpec == DeepInit /\ [][DeepNext]_vars

----------------------------------------------------------------------------
(* What the claims about the crawl speak of *)

\* the ids an answer names as children
ChildIdSet(resp) == Range(extract_ids(ChildUrisOf(resp)))

\* the ids reachable from the ids in S through the child lists of the
\* answers in `up` that were 200s
RECURSIVE ReachVia(_, _)
ReachVia(up, S) ==
    LET more == UNION {ChildIdSet(up[x]) :
                        x \in {y \in S \cap DOMAIN up : IsOk(up[y])}}
    IN  IF more \subseteq S THEN S ELSE ReachVia(up, S \cup more)

ReachOK == ReachVia(upstream, {"root"})

\* the ids the upstream hierarchy itself reaches from root, lost entities
\* included
RECURSIVE ReachAll(_, _)
ReachAll(up, S) ==
    LET more == UNION {ChildIdSet(up[x]) : x \in S \cap DOMAIN up}
    IN  IF more \subseteq S THEN S ELSE ReachAll(up, S \cup more)

Failed(id) == id \in DOMAIN upstream /\ ~IsOk(upstream[id])

RECURSIVE SumOver(_, _)
SumOver(f, S) ==
    IF S = {} THEN 0
    ELSE LET x == CHOOSE y \in S : TRUE IN f[x] + SumOver(f, S \ {x})

InFlight == {i \in DOMAIN tasks : tasks[i] = "inflight"}
Waiting == {i \in DOMAIN tasks : tasks[i] = "waiting"}

\* the record the Graph is to hold for an answer of the upstream
ExpectedNode(resp) ==
    IF ~IsOk(resp)
    THEN [title |-> "?", parents |-> <<>>, children |-> <<>>]
    ELSE LET j == resp.json
         IN  [title    |-> IF "title" \in DOMAIN j /\ "@value" \in DOMAIN j.title
                           THEN j.title["@value"] ELSE "?",
              parents  |-> IF "parent" \in DOMAIN j
                           THEN [k \in DOMAIN j.parent |->
                                   IF j.parent[k] \in {RootUri, RootUriSlash}
                                   THEN "root" ELSE j.parent[k][1]]
                           ELSE <<>>,
              children |-> IF "child" \in DOMAIN j
                           THEN [k \in DOMAIN j.child |->
                                   IF j.child[k] \in {RootUri, RootUriSlash}
                                   THEN "root" ELSE j.child[k][1]]
                           ELSE <<>>]

\* C1: fetch_entity is called at most once per id, and when crawl returns the
\* number of fetch calls (and the fetched counter) equals the number of nodes
\* of the Graph.
C1_FetchAtMostOnce ==
    /\ \A id \in Ids : calls[id] <= 1
    /\ pc = "done" =>
          /\ SumOver(calls, Ids) = Cardinality(DOMAIN graph)
          /\ fetched = Cardinality(DOMAIN graph)

\* a crawl has returned in which an id was named as a child by root and by
\* a node fetched in the batch after root's, and a fetch failed
C1_Witness ==
    /\ pc = "done"
    /\ Cardinality(DOMAIN graph) >= 3
    /\ \E x \in DOMAIN upstream : Failed(x)
    /\ \E x \in NonRoot, z \in NonRoot :
          /\ x # z
          /\ x \in DOMAIN graph
          /\ z \in Range(graph["root"].children) \cap Range(graph[x].children)

\* C2: at every instant at most `concurrency` fetches hold the semaphore.
C2_InFlightBounded == Cardinality(InFlight) <= concurrency

\* a batch larger than the limit: the limit is reached and a task waits
C2_Witness ==
    /\ Len(batch) > concurrency
    /\ Cardinality(InFlight) = concurrency
    /\ Waiting # {}
    /\ \E i \in DOMAIN tasks : tasks[i] = "done"

\* C3: when crawl returns, the Graph holds exactly the ids reachable from
\* root through the children lists of the successfully fetched nodes.
C3_GraphIsReachableSet == pc = "done" => DOMAIN graph = ReachOK

\* a crawl has returned that left an id out, over a hierarchy with a cycle
C3_Witness ==
    /\ pc = "done"
    /\ Cardinality(DOMAIN graph) = 3
    /\ \E x \in DOMAIN graph : x \in Range(graph[x].children)
    /\ \E x \in DOMAIN graph : Failed(x)

\* C4: a failed fetch does not abort the crawl: the id is recorded with title
\* "?", no parents and no children, and every id of the same batch and of
\* later batches is still processed.
C4_FailureRecordedAsStub ==
    /\ pc # "raised"
    /\ \A id \in DOMAIN graph : Failed(id) => graph[id] = StubNode
    /\ pc \in {"loop", "done"} => \A i \in DOMAIN batch : batch[i] \in DOMAIN graph
    /\ pc = "done" => seen \subseteq DOMAIN graph

\* a crawl has returned in which the first fetch of a batch of two failed
\* (one by its status, one by an exception) and a later batch was processed
C4_Witness ==
    /\ pc = "done"
    /\ \E x, y, z \in NonRoot :
          /\ graph["root"].children = <<x, y>>
          /\ upstream[x] = [status |-> 404]
          /\ Failed(z) /\ "raises" \in DOMAIN upstream[z]
          /\ z \in Range(graph[y].children)
          /\ graph[x] = StubNode /\ graph[z] = StubNode

\* C5: when the fetch of X fails, nothing that is reachable from root only
\* through X is ever enqueued, fetched or put in the Graph: whatever is
\* seen, queued, fetched or in the Graph is reachable from root through
\* successfully fetched nodes.
C5_FailedBranchNotExplored ==
    (seen \cup Range(queue) \cup Range(batch) \cup DOMAIN graph
        \cup {id \in Ids : calls[id] > 0}) \subseteq ReachOK

\* a crawl has returned in which X failed while the upstream holds children
\* for it: one reachable only through X, one also reachable past X
C5_Witness ==
    /\ pc = "done"
    /\ \E x \in NonRoot :
          /\ Failed(x)
          /\ \E y \in ChildIdSet(upstream[x]) : y \notin DOMAIN graph
          /\ \E y \in ChildIdSet(upstream[x]) \ {x, "root"} : y \in DOMAIN graph

\* C6: the crawl eventually reaches an empty queue and returns.
C6_CrawlTerminates == <>(pc = "done")

\* a crawl has returned over a hierarchy with a cycle and a failed fetch
C6_Witness ==
    /\ pc = "done"
    /\ \E x, y \in NonRoot \cap DOMAIN upstream :
          /\ x # y
          /\ IsOk(upstream[x]) /\ y \in ChildIdSet(upstream[x])
          /\ IsOk(upstream[y]) /\ x \in ChildIdSet(upstream[y])
    /\ \E x \in NonRoot : Failed(x)

\* C7: the final Graph is a function of the upstream answers alone, whatever
\* the order in which the fetches of a batch complete.
C7_GraphDeterminedByUpstream ==
    pc = "done" =>
        graph = [id \in ReachVia(upstream, {"root"}) |-> ExpectedNode(upstream[id])]

\* a fetch of a batch has completed before an earlier one of the same batch
C7_OutOfOrder ==
    /\ pc = "gather"
    /\ \E i, j \in DOMAIN tasks :
          /\ i < j
          /\ tasks[i] = "inflight" /\ tasks[j] = "done"
          /\ results[j] # None
          /\ Len(ChildIdsOf(results[j])) > 0

----------------------------------------------------------------------------
(* What the claims about the path counter speak of, read off `data` *)

\* the parent -> child relation the parents lists describe, over present ids
ParentRel ==
    {pc2 \in (DOMAIN data) \X (DOMAIN data) : pc2[1] \in Range(data[pc2[2]].parents)}

\* the sequences of distinct present ids
SimpleSeqs ==
    {s \in NonEmptySeqsUpTo(DOMAIN data, Cardinality(DOMAIN data)) :
        \A i, j \in DOMAIN s : i # j => s[i] # s[j]}

\* s is a directed path of the relation
IsPath(s) == \A k \in 1..(Len(s) - 1) : <<s[k], s[k + 1]>> \in ParentRel

\* the ids reached from the ids in S by one or more steps of the relation
RECURSIVE Below(_, _)
Below(S, acc) ==
    LET more == {c \in DOMAIN data : \E p \in S \cup acc : <<p, c>> \in ParentRel}
    IN  IF more \subseteq acc THEN acc ELSE Below(S, acc \cup more)

OnCycle(id) == id \in Below({id}, {})

RelAcyclic == \A id \in DOMAIN data : ~OnCycle(id)

NoCycleReachableFromRoot ==
    \A id \in {"root"} \cup Below({"root"}, {}) : ~OnCycle(id)

\* the distinct directed paths from root to id
PathsTo(id) ==
    {s \in SimpleSeqs : s[1] = "root" /\ s[Len(s)] = id /\ IsPath(s)}

\* path_counts[id_to_idx[id]]
CountOf(id) == path_counts[1][id_to_idx(ids, id)]

\* the sum of the path counts of the entries of id's parents list that are
\* present in the graph (an id listed twice counts twice)
RECURSIVE SumOfParents(_)
SumOfParents(parents) ==
    IF parents = <<>> THEN 0
    ELSE (IF Head(parents) \in DOMAIN data THEN CountOf(Head(parents)) ELSE 0)
         + SumOfParents(Tail(parents))

DPInvariant ==
    /\ CountOf("root") = 1
    /\ \A id \in DOMAIN data \ {"root"} : CountOf(id) = SumOfParents(data[id].parents)

\* the edges of the star on n vertices around root: a graph without cycle
\* in which every vertex has exactly one path from root
StarEdges(n, root) ==
    SelectSeq([v \in 1..n |-> <<root, v>>], LAMBDA e : e[2] # root)

\* C8: on a graph whose parent -> child relation is acyclic,
\* count_paths_to_root returns for every node the number of distinct
\* directed paths from root to it (0 when there is none).
C8_CountsDistinctPaths ==
    (apc = "counted" /\ RelAcyclic) =>
        \A id \in DOMAIN data : CountOf(id) = Cardinality(PathsTo(id))

\* C9 as stated: with no cycle reachable from root, the counts satisfy the
\* DP invariant.
C9_DPInvariantNoReachableCycle ==
    (apc = "counted" /\ NoCycleReachableFromRoot) => DPInvariant

\* C9 as amended: with no cycle at all in the parent -> child relation, the
\* count of root is 1 and the count of every other node is the sum of the
\* counts of the present entries of its parents list.
C9_DPInvariantAcyclic == (apc = "counted" /\ RelAcyclic) => DPInvariant

\* counted on an acyclic graph in which a node has two parents with paths
\* from root and another node is out of root's reach
C9_Witness ==
    /\ apc = "counted"
    /\ RelAcyclic
    /\ \E id \in DOMAIN data :
          /\ Len(data[id].parents) = 2
          /\ data[id].parents[1] # data[id].parents[2]
          /\ \A k \in 1..2 : data[id].parents[k] \in DOMAIN data \ {"root"}
          /\ \A k \in 1..2 : CountOf(data[id].parents[k]) = 1
          /\ CountOf(id) = 2

\* C10: when the topological sort fails, the value returned can be told
\* apart from a genuine path count: it differs from what the counter returns
\* for the star around root, a graph without cycle.
C10_CycleResultDistinct ==
    (apc = "counted" /\ ~RelAcyclic) =>
        path_counts[1] # count_paths_to_root(Len(ids), StarEdges(Len(ids), root_idx[1]),
                                             root_idx[1]).ret

----------------------------------------------------------------------------
(* What the claims about the metrics speak of, read off `graph` *)

\* the parent -> child relation the children lists describe, over present ids
IsChildEdge(p, c) ==
    /\ p \in DOMAIN graph
    /\ c \in DOMAIN graph
    /\ \E k \in DOMAIN graph[p].children : graph[p].children[k] = c

\* the lengths (in edges) of the children-paths from x to y that repeat no
\* node and avoid the nodes in `used`
RECURSIVE PathLengthsVia(_, _, _)
PathLengthsVia(x, y, used) ==
    IF x = y THEN {0}
    ELSE UNION {{l + 1 : l \in PathLengthsVia(c, y, used \cup {c})} :
                   c \in {d \in DOMAIN graph \ used : IsChildEdge(x, d)}}

PathLengths(x, y) == PathLengthsVia(x, y, {x})

\* the lengths of the children-paths that start at x and repeat no node
RECURSIVE PathLengthsDown(_, _)
PathLengthsDown(x, used) ==
    {0} \cup UNION {{l + 1 : l \in PathLengthsDown(c, used \cup {c})} :
                       c \in {d \in DOMAIN graph \ used : IsChildEdge(x, d)}}

PathLengthsFrom(x) == PathLengthsDown(x, {x})

Min(S) == CHOOSE x \in S : \A y \in S : x <= y

\* the present ids reached from x by one or more children edges
RECURSIVE ReachedFrom(_, _)
ReachedFrom(x, acc) ==
    LET more == {c \in DOMAIN graph :
                    \E p \in {x} \cup acc : IsChildEdge(p, c)}
    IN  IF more \subseteq acc THEN acc ELSE ReachedFrom(x, acc \cup more)

Descendants(x) == ReachedFrom(x, {})

ChildrenAcyclic == \A x \in DOMAIN graph : x \notin Descendants(x)

\* root and what it reaches; nothing when the graph has no root
FromRoot ==
    IF "root" \in DOMAIN graph THEN {"root"} \cup Descendants("root") ELSE {}

Annotated == spc \in {"annotated", "reset", "depth", "done"}

MetricFields == {"descendantCount", "height", "depth", "maxDepth"}

\* C11: when root is absent from the graph, every analysis that needs a root
\* aborts with a diagnostic and produces no per-node depth, maxDepth or
\* pathCount: analyze.py stops before counting, and compute_descendant_stats
\* reports the missing root and leaves no depth or maxDepth on any node.
C11_MissingRootAborts ==
    /\ ("root" \notin DOMAIN data /\ apc \notin {"idle", "start", "loaded"})
        => /\ apc = "exit"
           /\ path_counts = None
           /\ "ERROR: 'root' not found in graph" \in Range(stderr)
    /\ ("root" \notin DOMAIN graph /\ spc \in {"depth", "done"})
        => /\ \A id \in DOMAIN graph :
                {"depth", "maxDepth"} \cap DOMAIN graph[id] = {}
           /\ \E k \in DOMAIN stats_err :
                stats_err[k] # "Computed descendant stats"

\* C12: on a graph whose children edges are acyclic, after
\* compute_descendant_stats the maxDepth of every node reachable from root is
\* the length of the longest children-path from root to it.
C12_MaxDepthIsLongestPath ==
    (spc = "done" /\ ChildrenAcyclic)
        => \A id \in FromRoot :
            graph[id].maxDepth = Max(PathLengths("root", id))

\* C13: on every graph, the depth of every node reachable from root is the
\* length of the shortest children-path from root to it; the BFS assigns it
\* exactly once and nothing changes it afterwards.
C13_DepthIsShortestPath ==
    (spc \in {"depth", "done"})
        => \A id \in FromRoot :
            /\ graph[id].depth = Min(PathLengths("root", id))
            /\ depth_sets[id] = 1

\* a finished run on a graph with a cycle through root in which some node has
\* a longer and a shorter path from root
C13_Witness ==
    /\ spc = "done"
    /\ "root" \in DOMAIN graph
    /\ "root" \in Descendants("root")
    /\ \E id \in FromRoot : Cardinality(PathLengths("root", id)) > 1

\* C14: on a graph whose children edges are acyclic, descendantCount of every
\* node is the number of distinct present nodes reachable from it by one or
\* more children edges.
C14_DescendantCountIsReachable ==
    (Annotated /\ ChildrenAcyclic)
        => \A id \in DOMAIN graph :
            graph[id].descendantCount = Cardinality(Descendants(id))

\* an acyclic graph in which root reaches some node along two paths and
\* through an intermediate node
C14_Witness ==
    /\ spc = "done"
    /\ ChildrenAcyclic
    /\ \E x \in FromRoot :
        /\ Cardinality({p \in DOMAIN graph : IsChildEdge(p, x)}) > 1
        /\ ~IsChildEdge("root", x)

\* C15: on a graph whose children edges are acyclic, height of every node is
\* the length of the longest children-path from it down to a leaf, 0 for a
\* node with no child present in the graph.
C15_HeightIsLongestPathDown ==
    (Annotated /\ ChildrenAcyclic)
        => \A id \in DOMAIN graph :
            graph[id].height = Max(PathLengthsFrom(id))

\* an acyclic graph with a node whose only children are absent and a node
\* with a shorter and a longer way down
C15_Witness ==
    /\ spc = "done"
    /\ ChildrenAcyclic
    /\ \E x \in DOMAIN graph :
        /\ graph[x].children # <<>>
        /\ Range(graph[x].children) \cap DOMAIN graph = {}
    /\ \E x, y \in DOMAIN graph :
        /\ IsChildEdge(x, y)
        /\ graph[y].height + 1 < graph[x].height


\* C16: on every graph with a cycle under children edges
\* compute_descendant_stats terminates without error and gives every node a
\* finite non-negative descendantCount and height.
C16_CyclicRunCompletes ==
    /\ (deep.cyclic /\ deep.outcome # "start") => deep.outcome = "done"
    /\ (Annotated /\ ~ChildrenAcyclic)
        => \A id \in DOMAIN graph :
            /\ graph[id].descendantCount \in 0..Cardinality(DOMAIN graph)
            /\ graph[id].height \in 0..Cardinality(DOMAIN graph)

\* a metric of a node as the first run left it and as the graph has it now
SameMetrics(id) ==
    \A f \in MetricFields : graph[id][f] = first[1][id][f]

\* C17: a second run of compute_descendant_stats on the graph the first run
\* annotated gives every node the same descendantCount, height, depth and
\* maxDepth.
C17_SecondRunSame ==
    (first # None /\ spc = "done")
        => \A id \in DOMAIN graph : SameMetrics(id)

\* the second run has finished on a graph with a cycle, a node with nonzero
\* descendantCount and a node whose maxDepth exceeds its depth
C17_Witness ==
    /\ first # None
    /\ spc = "done"
    /\ ~ChildrenAcyclic
    /\ \E id \in DOMAIN graph : graph[id].maxDepth > graph[id].depth
    /\ \E id \in DOMAIN graph : graph[id].descendantCount > 1

\* C18: after compute_descendant_stats every node that root does not reach
\* by children edges has depth -1 and maxDepth -1.
C18_UnreachedKeepMinusOne ==
    (spc = "done")
        => \A id \in DOMAIN graph \ FromRoot :
            /\ graph[id].depth = -1
            /\ graph[id].maxDepth = -1

\* a finished run on a graph with root in which root reaches some node and
\* an unreached node has a child that is unreached too
C18_Witness ==
    /\ spc = "done"
    /\ "root" \in DOMAIN graph
    /\ Descendants("root") # {}
    /\ \E x, y \in DOMAIN graph \ FromRoot : IsChildEdge(x, y)

\* the graph with every reference to an absent id taken out of the parents
\* and children lists, and without the metric fields
WithoutDangling(g) ==
    [id \in DOMAIN g |->
        [title    |-> g[id].title,
         parents  |-> SelectSeq(g[id].parents, LAMBDA x : x \in DOMAIN g),
         children |-> SelectSeq(g[id].children, LAMBDA x : x \in DOMAIN g)]]

\* the ids a list names that the graph lacks
Dangling(g, list) == Range(list) \ DOMAIN g

\* C19: a parent or child id that a node names but the graph lacks is
\* skipped by every pass: the metrics, the edge list and the path counts are
\* what they are on the graph without those references, no edge has a
\* missing endpoint, and no descendantCount counts an absent id.
C19_MissingIdsSkipped ==
    /\ (spc = "done")
        => LET ref == compute_descendant_stats(WithoutDangling(graph))
           IN  \A id \in DOMAIN graph :
                /\ \A f \in MetricFields : graph[id][f] = ref[id][f]
                /\ graph[id].descendantCount <= Cardinality(Descendants(id))
    /\ (apc \in {"loaded", "ready", "depths", "exit", "counted"})
        => /\ edges = BuildEdges(WithoutDangling(data), ids, 1)
           /\ \A k \in DOMAIN edges :
                edges[k][1] \in DOMAIN ids /\ edges[k][2] \in DOMAIN ids
    /\ (apc = "counted")
        => path_counts =
             Some(count_paths_to_root(Len(ids),
                                      BuildEdges(WithoutDangling(data), ids, 1),
                                      root_idx[1]).ret)

\* both programs have finished on a graph in which a node that root reaches
\* names an absent child and a node names an absent parent
C19_Witness ==
    /\ spc = "done"
    /\ apc = "counted"
    /\ \E id \in FromRoot : Dangling(graph, graph[id].children) # {}
    /\ \E id \in DOMAIN data : Dangling(data, data[id].parents) # {}

\* g is the diamond root -> {a, b}, a -> c, b -> c with consistent lists
IsDiamond(g) ==
    /\ DOMAIN g = {"root", "a", "b", "c"}
    /\ g["root"].children \in {<<"a", "b">>, <<"b", "a">>}
    /\ g["a"].children = <<"c">>
    /\ g["b"].children = <<"c">>
    /\ g["c"].children = <<>>
    /\ g["root"].parents = <<>>
    /\ g["a"].parents = <<"root">>
    /\ g["b"].parents = <<"root">>
    /\ g["c"].parents \in {<<"a", "b">>, <<"b", "a">>}

\* C20: on the diamond graph pathCount is root 1, a 1, b 1, c 2, depth is
\* root 0, a 1, b 1, c 2 and descendantCount is root 3, a 1, b 1, c 0.
C20_DiamondValues ==
    /\ (spc = "done" /\ IsDiamond(graph))
        => /\ graph["root"].depth = 0
           /\ graph["a"].depth = 1
           /\ graph["b"].depth = 1
           /\ graph["c"].depth = 2
           /\ graph["root"].descendantCount = 3
           /\ graph["a"].descendantCount = 1
           /\ graph["b"].descendantCount = 1
           /\ graph["c"].descendantCount = 0
    /\ (apc = "counted" /\ IsDiamond(data))
        => /\ CountOf("root") = 1
           /\ CountOf("a") = 1
           /\ CountOf("b") = 1
           /\ CountOf("c") = 2

\* the metrics and the path counts have both been computed on the diamond
C20_Witness ==
    /\ spc = "done"
    /\ apc = "counted"
    /\ IsDiamond(graph)
    /\ IsDiamond(data)

\* g consists of a root with no children
LoneRoot(g) ==
    /\ DOMAIN g = {"root"}
    /\ g["root"].children = <<>>

\* C21: on the graph that consists of a root with no children,
\* descendantCount[root] = 0, height[root] = 0 and the path counts are
\* exactly root: 1.
C21_LoneRootValues ==
    /\ (Annotated /\ LoneRoot(graph))
        => /\ graph["root"].descendantCount = 0
           /\ graph["root"].height = 0
    /\ (apc = "counted" /\ LoneRoot(data))
        => /\ ids = <<"root">>
           /\ path_counts = Some(<<1>>)

\* the metrics and the path counts have both been computed on the lone root
C21_Witness ==
    /\ spc = "done"
    /\ apc = "counted"
    /\ LoneRoot(graph)
    /\ LoneRoot(data)

----------------------------------------------------------------------------
(* More about the crawl *)

\* some fetch of the current batch has been issued and has not resolved
Pending == \E i \in DOMAIN tasks : tasks[i] \in {"waiting", "inflight"}

\* C22: batch-join barrier: while a fetch of the batch is unresolved the
\* coordinator inserts no node into the graph, adds no id to seen or the
\* queue, and issues no fetch of a later batch.
C22_BatchJoinBarrier ==
    [][Pending => /\ graph' = graph
                  /\ seen' = seen
                  /\ queue' = queue
                  /\ batch' = batch
                  /\ calls' = calls
                  /\ fetched' = fetched]_vars

\* in a batch of two or more, one fetch has resolved with a child nobody has
\* seen while another fetch is still in flight
C22_Witness ==
    /\ pc = "gather"
    /\ \E i, j \in DOMAIN tasks :
        /\ tasks[i] = "done"
        /\ tasks[j] = "inflight"
        /\ Range(ChildIdsOf(results[i])) \ seen # {}

\* C23 as stated: a node is inserted the moment its own fetch resolves, so
\* when a fetch of the batch resolves, every node of the batch whose fetch
\* resolved earlier is already in the graph.
C23_InsertedWhenResolved ==
    [][\A j \in DOMAIN tasks :
        (j \in DOMAIN tasks' /\ tasks[j] = "inflight" /\ tasks'[j] = "done")
            => \A i \in DOMAIN tasks \ {j} :
                tasks[i] = "done" => batch[i] \in DOMAIN graph]_vars

\* C23, amended: a node is inserted only after every fetch of its batch has
\* resolved: no node of the batch is in the graph while the batch is being
\* gathered, the nodes are inserted in batch order once gather has returned,
\* and all of them are in the graph when the next batch is drained.
C23_InsertedAfterJoin ==
    /\ pc = "gather" => \A i \in DOMAIN batch : batch[i] \notin DOMAIN graph
    /\ pc = "process"
        => /\ \A i \in DOMAIN tasks : tasks[i] = "done"
           /\ \A i \in DOMAIN batch : (i < idx) <=> (batch[i] \in DOMAIN graph)
    /\ pc \in {"loop", "done"}
        => \A i \in DOMAIN batch : batch[i] \in DOMAIN graph

\* a fetch of the batch has resolved with an entity, another is still in
\* flight, and the resolved node is not in the graph
C23_Witness ==
    /\ pc = "gather"
    /\ \E i, j \in DOMAIN tasks :
        /\ tasks[i] = "done"
        /\ results[i] # None
        /\ tasks[j] = "inflight"
        /\ batch[i] \notin DOMAIN graph

\* C24: during a crawl the key set of the graph only grows: the record of
\* each id is written exactly once and is never deleted or overwritten.
C24_GraphOnlyGrows ==
    /\ [](\A id \in Ids : /\ writes[id] <= 1
                          /\ (id \in DOMAIN graph) <=> (writes[id] = 1))
    /\ [][\A id \in DOMAIN graph :
            /\ id \in DOMAIN graph'
            /\ graph'[id] = graph[id]]_vars

\* a finished crawl in which x is a child of root and also a child of y, a
\* node fetched one batch after x
C24_Witness ==
    /\ pc = "done"
    /\ \E x, y \in DOMAIN graph \ {"root"} :
        /\ x # y
        /\ x \in Range(graph["root"].children)
        /\ y \notin Range(graph["root"].children)
        /\ y \in Range(graph[x].children)
        /\ x \in Range(graph[y].children)

\* C25: seen is exactly the set of ids ever enqueued and never shrinks; an id
\* enters seen in the step that enqueues it, so each id is enqueued at most
\* once.
C25_SeenIsEverEnqueued ==
    /\ [](/\ seen = {id \in Ids : enqs[id] >= 1}
          /\ \A id \in Ids : enqs[id] <= 1)
    /\ [][/\ seen \subseteq seen'
          /\ \A id \in Ids : (enqs'[id] > enqs[id]) <=> (id \in seen' \ seen)]_vars

\* a finished crawl in which two children of root both name z, or one node
\* names a child twice
C25_Witness ==
    /\ pc = "done"
    /\ \/ \E x, y, z \in DOMAIN graph \ {"root"} :
            /\ x # y
            /\ {x, y} \subseteq Range(graph["root"].children)
            /\ z \notin Range(graph["root"].children)
            /\ z \in Range(graph[x].children) \cap Range(graph[y].children)
       \/ \E x \in DOMAIN graph :
            \E i, j \in DOMAIN graph[x].children :
                i # j /\ graph[x].children[i] = graph[x].children[j]

----------------------------------------------------------------------------
(* More about the metrics *)

\* the distinct (parent, child) edges between present nodes
ChildEdges ==
    {e \in (DOMAIN graph) \X (DOMAIN graph) : IsChildEdge(e[1], e[2])}

\* C26: in the max-depth pass every (parent, child) edge is relaxed at most
\* once, so the pass ends after at most |E| relaxations and at most 1 + |E|
\* queue pops, on every graph, cycles and cycles through root included.
C26_EdgeRelaxedOnce ==
    (spc = "done")
        => /\ \A i, j \in DOMAIN relaxed.log :
                i # j => relaxed.log[i] # relaxed.log[j]
           /\ Range(relaxed.log) \subseteq ChildEdges
           /\ Len(relaxed.log) <= Cardinality(ChildEdges)
           /\ relaxed.pops <= 1 + Cardinality(ChildEdges)

\* a finished run on a graph with a cycle through root in which some node
\* was popped more than once and some node names a child twice
C26_Witness ==
    /\ spc = "done"
    /\ "root" \in DOMAIN graph
    /\ "root" \in Descendants("root")
    /\ relaxed.pops > Cardinality(FromRoot)
    /\ \E x \in FromRoot : \E i, j \in DOMAIN graph[x].children :
        /\ i # j
        /\ graph[x].children[i] = graph[x].children[j]
        /\ graph[x].children[i] \in DOMAIN graph

\* C27: on a graph with a cycle under children edges the cycle guard only
\* undercounts: every id that get_descendants counts for a node is a present
\* node reachable from it by one or more children edges, so descendantCount
\* never exceeds the number of such nodes.
C27_CycleGuardUndercounts ==
    (Annotated /\ ~ChildrenAcyclic)
        => \A id \in DOMAIN graph :
            /\ desc_sets[id] \subseteq Descendants(id)
            /\ graph[id].descendantCount = Cardinality(desc_sets[id])
            /\ graph[id].descendantCount <= Cardinality(Descendants(id))

\* a finished run on a graph with a cycle in which some node on the cycle is
\* given fewer descendants than it reaches
C27_Witness ==
    /\ spc = "done"
    /\ \E id \in DOMAIN graph :
        /\ id \in Descendants(id)
        /\ graph[id].descendantCount < Cardinality(Descendants(id))
        /\ graph[id].descendantCount > 0

\* the orders in which the keys S of a graph can be iterated
AllOrders(S) ==
    {s \in [1..Cardinality(S) -> S] : \A i, j \in DOMAIN s : i # j => s[i] # s[j]}

\* what the first loop assigns to id when the keys are iterated in `order`
AnnotatedIn(order, id) ==
    LET r == AnnotateAll(graph, order, EmptyMap, EmptyMap).g[id]
    IN  <<r.descendantCount, r.height>>

\* C28: descendantCount and height are a function of the ids and the
\* children lists alone: in whatever order the nodes are iterated, every
\* node gets the same descendantCount and height, also on a graph with a
\* cycle.
C28_OrderIndependent ==
    (spc = "annotated")
        => \A order \in AllOrders(DOMAIN graph) :
            \A id \in DOMAIN graph :
                AnnotatedIn(order, id)
                    = <<graph[id].descendantCount, graph[id].height>>

\* other lists a node could carry in place of `list`: none, the node's other
\* list, the same list backwards, every id
OtherLists == {"none", "swapped", "reversed", "all"}
OtherList(kind, list, other) ==
    CASE kind = "none"     -> <<>>
      [] kind = "swapped"  -> other
      [] kind = "reversed" -> Reverse(list)
      [] kind = "all"      -> KeyOrder

\* g with every children list replaced, the parents lists kept
WithOtherChildren(g, kind) ==
    [id \in DOMAIN g |->
        [g[id] EXCEPT !.children = OtherList(kind, @, g[id].parents)]]

\* g with every parents list replaced, the children lists kept
WithOtherParents(g, kind) ==
    [id \in DOMAIN g |->
        [g[id] EXCEPT !.parents = OtherList(kind, @, g[id].children)]]

\* C29: the path counts depend only on the parents lists (a graph with the
\* same ids and parents lists but other children lists gives the same
\* count_paths_to_root result), and depth, maxDepth, height and
\* descendantCount depend only on the children lists (other parents lists
\* leave them unchanged).
C29_ListsDriveSeparateResults ==
    /\ (apc = "counted")
        => \A kind \in OtherLists :
            path_counts =
                Some(count_paths_to_root(
                         Len(ids),
                         BuildEdges(WithOtherChildren(data, kind), ids, 1),
                         root_idx[1]).ret)
    /\ (spc = "done" /\ apc = "idle")
        => \A kind \in OtherLists :
            LET other == compute_descendant_stats(WithOtherParents(graph, kind))
            IN  \A id \in DOMAIN graph : \A f \in MetricFields :
                    other[id][f] = graph[id][f]

\* both programs have finished on a graph in which some node has two paths
\* from root and some node's parents and children lists differ and are both
\* non-empty
C29_Witness ==
    /\ spc = "done"
    /\ apc = "counted"
    /\ \E id \in DOMAIN data : CountOf(id) >= 2
    /\ \E id \in DOMAIN graph :
        /\ graph[id].parents # <<>>
        /\ graph[id].children # <<>>
        /\ Range(graph[id].parents) # Range(graph[id].children)

\* the part of a node record that the crawl wrote
CrawledFields == {"title", "parents", "children"}

\* C30: compute_descendant_stats only adds or replaces descendantCount,
\* height, depth and maxDepth: no step of it changes the set of node ids or
\* any node's title, parents or children, and when it returns every node
\* carries the four metric fields and nothing else new.
C30_OnlyMetricFieldsWritten ==
    /\ [](spc = "done"
            => \A id \in DOMAIN graph :
                DOMAIN graph[id] = CrawledFields \cup MetricFields)
    /\ [][/\ DOMAIN graph' = DOMAIN graph
          /\ \A id \in DOMAIN graph :
                /\ CrawledFields \subseteq DOMAIN graph'[id]
                /\ \A f \in CrawledFields : graph'[id][f] = graph[id][f]
                /\ DOMAIN graph'[id] \ MetricFields
                       = DOMAIN graph[id] \ MetricFields]_vars

\* the second run has finished, so every metric field was replaced, on a
\* graph in which some node has parents and children
C30_Witness ==
    /\ spc = "done"
    /\ first # None
    /\ \E id \in DOMAIN graph :
        /\ graph[id].parents # <<>>
        /\ graph[id].children # <<>>
        /\ graph[id].descendantCount > 0

----------------------------------------------------------------------------
(* The crawl and the metrics together *)

\* C31: at every batch boundary (the while test, just before a batch is
\* drained) the keys of the graph and the ids in the queue are disjoint and
\* together they are exactly seen; when the crawl has returned the key set of
\* the graph equals seen.
C31_BoundaryPartition ==
    /\ pc = "loop" => /\ DOMAIN graph \cap Range(queue) = {}
                      /\ DOMAIN graph \cup Range(queue) = seen
    /\ pc = "done" => DOMAIN graph = seen

\* the boundary before the third batch: root and a child of it are in the
\* graph, a grandchild waits in the queue; the child also names root and
\* itself, which are not queued again
C31_Witness ==
    /\ pc = "loop"
    /\ Cardinality(DOMAIN graph) >= 2
    /\ queue # <<>>
    /\ \E x \in DOMAIN graph \ {"root"} :
        /\ Range(queue) \subseteq Range(graph[x].children)
        /\ Range(graph[x].children) \cap DOMAIN graph # {}

\* C32: every fetch gives its permit back whatever its outcome: the free
\* permits stay within 0..concurrency and are concurrency less the fetches
\* in flight (so all are free when none is in flight), a fetch that ends
\* frees one permit, and every fetch that waits for a permit gets one.
C32_PermitsReleased ==
    /\ [](/\ permits \in 0..concurrency
          /\ permits = concurrency - Cardinality(InFlight))
    /\ [][\A i \in DOMAIN tasks :
            (tasks[i] = "inflight" /\ i \in DOMAIN tasks'
                /\ tasks'[i] # "inflight")
                => permits' = permits + 1]_vars
    /\ \A i \in 1..Cardinality(Ids) :
         (i \in DOMAIN tasks /\ tasks[i] = "waiting")
            ~> (i \in DOMAIN tasks /\ tasks[i] = "inflight")

\* a batch of three under a smaller limit: the first fetch ended in an
\* exception, the second in a 404 (root's was a 200), and the third, which
\* had to wait, holds a permit
C32_Witness ==
    /\ pc = "gather"
    /\ Len(batch) = 3
    /\ Len(batch) > concurrency
    /\ tasks = <<"done", "done", "inflight">>
    /\ "raises" \in DOMAIN upstream[batch[1]]
    /\ upstream[batch[2]] = [status |-> 404]
    /\ IsOk(upstream["root"])
    /\ permits = concurrency - 1

\* the index of the batch an id was fetched in, root's batch being 0
BatchIndex(id) ==
    CHOOSE k \in 0..(Len(batches) - 1) : id \in Range(batches[k + 1])

\* the ids at shortest children-distance k from root in the graph; a failed
\* node has no children there, so the paths run through fetched nodes only
Generation(k) ==
    {id \in FromRoot : Min(PathLengths("root", id)) = k}

\* C33: batches are BFS generations: once the crawl has returned, its k-th
\* batch (root's being 0) holds exactly the ids at shortest children-distance
\* k from root, each once, and compute_descendant_stats on the returned graph
\* gives every node a depth equal to the index of its batch.
C33_BatchesAreGenerations ==
    /\ pc = "done"
        => /\ \A k \in DOMAIN batches :
                /\ Range(batches[k]) = Generation(k - 1)
                /\ Len(batches[k]) = Cardinality(Range(batches[k]))
           /\ DOMAIN graph = UNION {Range(batches[k]) : k \in DOMAIN batches}
    /\ (pc = "done" /\ spc \in {"depth", "done"})
        => \A id \in DOMAIN graph : graph[id].depth = BatchIndex(id)

\* the metrics have run on a crawl of three batches or more in which some
\* node is reached from root along a shorter and a longer path
C33_Witness ==
    /\ pc = "done"
    /\ spc = "done"
    /\ Len(batches) >= 3
    /\ \E id \in DOMAIN graph : Cardinality(PathLengths("root", id)) > 1
    /\ \E k \in DOMAIN batches : Len(batches[k]) >= 2

\* C34: after compute_descendant_stats on any graph, cyclic or not, depth is
\* -1 exactly when maxDepth is -1, and every other node has
\* 0 <= depth <= maxDepth.
C34_DepthWithinMaxDepth ==
    spc = "done"
        => \A id \in DOMAIN graph :
            /\ (graph[id].depth = -1) <=> (graph[id].maxDepth = -1)
            /\ graph[id].depth # -1
                => /\ 0 <= graph[id].depth
                   /\ graph[id].depth <= graph[id].maxDepth

\* a finished run on a graph with a cycle through root, a node root does
\* not reach, and a node whose maxDepth exceeds its depth
C34_Witness ==
    /\ spc = "done"
    /\ "root" \in DOMAIN graph
    /\ "root" \in Descendants("root")
    /\ \E id \in DOMAIN graph : graph[id].depth = -1
    /\ \E id \in DOMAIN graph :
        graph[id].depth >= 1 /\ graph[id].maxDepth > graph[id].depth

\* p is in the parents of c exactly when c is in the children of p, for the
\* ids p and c that g holds
Consistent(g) ==
    \A p \in DOMAIN g, c \in DOMAIN g :
        (p \in Range(g[c].parents)) <=> (c \in Range(g[p].children))

\* depths[id_to_idx[id]]
DepthOf(id) == depths[1][id_to_idx(ids, id)]

\* C35: on a graph whose parents and children lists are mutually consistent,
\* analyze_depths over the parents-derived edges gives every node the depth
\* that the children-driven BFS of compute_descendant_stats stored for it,
\* -1 for the nodes root does not reach included.
C35_SameDepthBothWays ==
    (apc \in {"depths", "counted"} /\ Consistent(data))
        => \A id \in DOMAIN data : DepthOf(id) = data[id].depth

\* analyze_depths has run on a saved graph with a cycle in which root does
\* not reach some node and reaches another along a shorter and a longer path
C35_Witness ==
    /\ apc = "depths"
    /\ Consistent(data)
    /\ \E id \in DOMAIN data : DepthOf(id) = -1
    /\ \E id \in DOMAIN data :
        /\ DepthOf(id) >= 1
        /\ data[id].maxDepth > data[id].depth
    /\ \E id \in DOMAIN data : id \in Range(data[id].children)

============================================================================
